---------------------------- MODULE Spec2Model ----------------------------
(***************************************************************************)
(* A model of src/src/browserExt/proxy.js: the Zotero.Proxies singleton    *)
(* (proxy list, host index, request-header store, ignored URLs), the       *)
(* webRequest handlers it registers, the deferred detector pipeline, the   *)
(* EZProxy probe listener and the Zotero.Proxy scheme compiler.            *)
(*                                                                         *)
(* JavaScript strings are TLA+ strings; positions are 0-based as in the    *)
(* source.  null and "" are both written "" where every test the source    *)
(* makes on them is a truthiness test or a comparison that cannot tell     *)
(* them apart; undefined is the value Undefined.  A value that the source  *)
(* binds to a variable and reads several times is passed as an argument to *)
(* the operator that models the code reading it.                           *)
(***************************************************************************)
EXTENDS Integers, Sequences, FiniteSets, TLC

(***************************************************************************)
(* String primitives (String.prototype of the language).                   *)
(***************************************************************************)
Undefined == "<undefined>"
\* null, where the source can tell it from the empty string
Null == "<null>"

Min(a, b) == IF a < b THEN a ELSE b
Max(a, b) == IF a > b THEN a ELSE b

MinOf(S) == CHOOSE x \in S : \A y \in S : x <= y
MaxOf(S) == CHOOSE x \in S : \A y \in S : x >= y

\* s[i] / s.charAt(i): the character at 0-based position i, "" outside s
CharAt(s, i) == IF i >= 0 /\ i < Len(s) THEN SubSeq(s, i + 1, i + 1) ELSE ""

\* s.substr(st, len) for a start st already brought into 0 .. s.length
SubstrAt(s, st, len) == SubSeq(s, st + 1, st + Max(0, Min(len, Len(s) - st)))

\* s.substr(start, len)
Substr(s, start, len) ==
    SubstrAt(s, IF start < 0 THEN Max(Len(s) + start, 0) ELSE Min(start, Len(s)), len)

\* s.substr(start)
SubstrFrom(s, start) == Substr(s, start, Len(s))

\* whether sub occurs in s at 0-based position i
OccursAt(s, sub, i) ==
    i >= 0 /\ i + Len(sub) <= Len(s) /\ SubSeq(s, i + 1, i + Len(sub)) = sub

RECURSIVE IndexOfFrom(_, _, _)
\* s.indexOf(sub, from)
IndexOfFrom(s, sub, from) ==
    IF from < 0 THEN IndexOfFrom(s, sub, 0)
    ELSE IF from + Len(sub) > Len(s) THEN -1
    ELSE IF OccursAt(s, sub, from) THEN from
    ELSE IndexOfFrom(s, sub, from + 1)

\* s.indexOf(sub)
IndexOf(s, sub) == IndexOfFrom(s, sub, 0)

RECURSIVE LastIndexOfFrom(_, _, _)
\* s.lastIndexOf(sub, from)
LastIndexOfFrom(s, sub, from) ==
    IF from < 0 THEN -1
    ELSE IF OccursAt(s, sub, from) THEN from
    ELSE LastIndexOfFrom(s, sub, from - 1)

\* s.lastIndexOf(sub)
LastIndexOf(s, sub) == LastIndexOfFrom(s, sub, Len(s) - Len(sub))

UpperChars == "ABCDEFGHIJKLMNOPQRSTUVWXYZ"
LowerChars == "abcdefghijklmnopqrstuvwxyz"

\* the characters of a string, as a set
CharSet(chars) == {SubSeq(chars, i, i) : i \in 1 .. Len(chars)}

UpperSet == CharSet(UpperChars)
DigitSet == CharSet("0123456789")
AlnumSet == UpperSet \cup CharSet(LowerChars) \cup DigitSet

\* c.toLowerCase() for one character
LowerChar(c) == IF c \in UpperSet THEN CharAt(LowerChars, IndexOf(UpperChars, c)) ELSE c

RECURSIVE ToLowerCase(_)
\* s.toLowerCase()
ToLowerCase(s) ==
    IF s = "" THEN "" ELSE LowerChar(CharAt(s, 0)) \o ToLowerCase(SubstrFrom(s, 1))

\* arr.indexOf(x) for an array written as a sequence
SeqIndexOf(seq, x) ==
    LET I == {i \in 1 .. Len(seq) : seq[i] = x}
    IN  IF I = {} THEN -1 ELSE MinOf(I) - 1

\* every character of s is a member of the set chars
AllIn(s, chars) == \A i \in 0 .. Len(s) - 1 : CharAt(s, i) \in chars

\* the part of s before the first occurrence of sub, s where there is none
Before(s, sub) == SubstrAt(s, 0, IF IndexOf(s, sub) = -1 THEN Len(s) ELSE IndexOf(s, sub))

\* the part of s from the first occurrence of sub on, "" where there is none
From(s, sub) == SubstrAt(s, IF IndexOf(s, sub) = -1 THEN Len(s) ELSE IndexOf(s, sub), Len(s))

(***************************************************************************)
(* url.parse of the url module required at line 30, for the URL shapes     *)
(* the handlers receive: [protocol:][//host[:port]][path][?query][#hash].  *)
(* The protocol and host are lower-cased, an http(s) URL without a path    *)
(* gets the path "/", href is the URL formatted again from its parts.      *)
(***************************************************************************)
ProtocolSet == AlnumSet \cup {".", "+", "-"}

RECURSIVE FirstOfFrom(_, _, _)
\* the first position in s, at or after from, of a member of the set chars; Len(s) if none
FirstOfFrom(s, chars, from) ==
    IF from >= Len(s) THEN Len(s)
    ELSE IF CharAt(s, from) \in chars THEN from
    ELSE FirstOfFrom(s, chars, from + 1)

\* url.parse(u).  n is the length of the protocol with its colon (0 where u has none), e
\* the end of the authority (n where there is none), pcolon the last colon of the host
UrlParse(u) ==
    LET Object(protocol, slashes, hostname, port, pathname0, search, hash) ==
            LET host     == IF port = "" THEN hostname ELSE hostname \o ":" \o port
                pathname == IF pathname0 = "" /\ slashes /\ hostname # "" THEN "/"
                            ELSE pathname0
            IN  [protocol |-> protocol, host |-> host, hostname |-> hostname, port |-> port,
                 pathname |-> pathname, path |-> pathname \o search,
                 query |-> SubstrFrom(search, 1),
                 href |-> protocol \o (IF slashes THEN "//" ELSE "") \o host \o pathname
                            \o search \o hash]
        Host(n, e, host0, pcolon) ==
            Object(ToLowerCase(Substr(u, 0, n)), e > n,
                   IF pcolon = -1 THEN host0 ELSE Substr(host0, 0, pcolon),
                   IF /\ pcolon # -1 /\ pcolon + 1 < Len(host0)
                      /\ AllIn(SubstrFrom(host0, pcolon + 1), DigitSet)
                   THEN SubstrFrom(host0, pcolon + 1) ELSE "",
                   Before(Before(SubstrFrom(u, e), "#"), "?"),
                   From(Before(SubstrFrom(u, e), "#"), "?"),
                   From(SubstrFrom(u, e), "#"))
        Authority(n, e, host0) == Host(n, e, host0, LastIndexOf(host0, ":"))
        Protocol(n, e) == Authority(n, e, ToLowerCase(Substr(u, n + 2, e - n - 2)))
        Parse(n) ==
            Protocol(n, IF n > 0 /\ OccursAt(u, "//", n)
                        THEN FirstOfFrom(u, {"/", "?", "#"}, n + 2) ELSE n)
    IN  Parse(IF IndexOf(u, ":") > 0 /\ AllIn(Substr(u, 0, IndexOf(u, ":")), ProtocolSet)
              THEN IndexOf(u, ":") + 1 ELSE 0)

(***************************************************************************)
(* Zotero.Proxy: a proxy object is the record                              *)
(*   [multiHost, autoAssociate, scheme, hosts, regexp, parameters,         *)
(*    indices].                                                            *)
(* regexp is the source text handed to new RegExp ("" before the first     *)
(* compilation, which is the only falsy value it takes), parameters the    *)
(* array this.parameters, indices the object this.indices.                 *)
(***************************************************************************)
NoIndices == [x \in {} |-> 0]

\* new Zotero.Proxy: hosts = [], multiHost = false, nothing else defined
NewProxy ==
    [multiHost |-> FALSE, autoAssociate |-> FALSE, scheme |-> "", hosts |-> <<>>,
     regexp |-> "", parameters |-> <<>>, indices |-> NoIndices]

\* the keys of Zotero_Proxy_schemeParameters as the module is loaded, in insertion order
InitialSchemeParameters == <<"%p", "%d", "%f", "%a">>

AnyFragment  == "(.*?)"
HostFragment == "([a-zA-Z0-9]+\\.[a-zA-Z0-9.]+)"

\* parametersToCheck[param]
ParameterFragment(param) == IF param = "%h" THEN HostFragment ELSE AnyFragment

\* parametersToCheck["%h"] = ...: the table is the shared constant itself, so the key stays
AddHostParameter(keys) ==
    IF SeqIndexOf(keys, "%h") = -1 THEN Append(keys, "%h") ELSE keys

RECURSIVE SkipEscaped(_, _, _)
\* the while loop of compileRegexp: drops the "%" before an escaped occurrence of param
\* and searches on from index+1; yields the scheme as rewritten and the final index
SkipEscaped(scheme, param, index) ==
    IF CharAt(scheme, index - 1) = "%"
    THEN LET s2 == Substr(scheme, 0, index - 1) \o SubstrFrom(scheme, index)
         IN  SkipEscaped(s2, param, IndexOfFrom(s2, param, index + 1))
    ELSE [scheme |-> scheme, index |-> index]

RECURSIVE ScanParameters(_, _, _)
\* the for-in loop of compileRegexp over the keys from position k on; r is what the while
\* loop left for the key
ScanParameters(acc, keys, k) ==
    LET Scanned(param, r) ==
            IF r.index # -1
            THEN [scheme |-> r.scheme,
                  indices |-> [x \in DOMAIN acc.indices \cup {param} |->
                                   IF x = param THEN r.index ELSE acc.indices[x]],
                  parameters |-> Append(acc.parameters, param)]
            ELSE [acc EXCEPT !.scheme = r.scheme]
    IN  IF k > Len(keys) THEN acc
        ELSE ScanParameters(
                 Scanned(keys[k], SkipEscaped(acc.scheme, keys[k], IndexOf(acc.scheme, keys[k]))),
                 keys, k + 1)

RemoveAt(seq, i) == SubSeq(seq, 1, i - 1) \o SubSeq(seq, i + 1, Len(seq))

RECURSIVE SortByIndex(_, _)
\* this.parameters.sort(by indices): selection of the smallest index first
SortByIndex(params, indices) ==
    LET First(k) == <<params[k]>> \o SortByIndex(RemoveAt(params, k), indices)
    IN  IF params = <<>> THEN <<>>
        ELSE First(CHOOSE i \in 1 .. Len(params) :
                       \A j \in 1 .. Len(params) :
                           \/ indices[params[i]] < indices[params[j]]
                           \/ (indices[params[i]] = indices[params[j]] /\ i <= j))

MetaSet == CharSet("-[]{}()*+?.\\^$|,# ")

RECURSIVE Quotemeta(_)
\* Zotero.Utilities.quotemeta: a backslash before every regular-expression metacharacter
Quotemeta(s) ==
    LET Quote(c) == IF c \in MetaSet THEN "\\" \o c ELSE c
    IN  IF s = "" THEN "" ELSE Quote(CharAt(s, 0)) \o Quotemeta(SubstrFrom(s, 1))

RECURSIVE ParameterAt(_, _, _)
\* the leftmost position, from i on, of a non-% character followed by param; -1 if none
ParameterAt(re, param, i) ==
    IF i + 3 > Len(re) THEN -1
    ELSE IF CharAt(re, i) # "%" /\ OccursAt(re, param, i + 1) THEN i
    ELSE ParameterAt(re, param, i + 1)

\* re.replace(/([^%])%x/, "$1" + fragment): the leftmost non-% character followed by param
ReplaceParameter(re, param, fragment) ==
    LET ReplaceAt(i) ==
            IF i = -1 THEN re ELSE Substr(re, 0, i + 1) \o fragment \o SubstrFrom(re, i + 3)
    IN  ReplaceAt(ParameterAt(re, param, 0))

RECURSIVE ReplaceParameters(_, _, _)
\* the reverse loop of compileRegexp, from parameters[i] down to parameters[1]
ReplaceParameters(re, params, i) ==
    IF i = 0 THEN re
    ELSE ReplaceParameters(ReplaceParameter(re, params[i], ParameterFragment(params[i])),
                           params, i - 1)

\* Zotero.Proxy.prototype.compileRegexp on proxy, with the shared parameter table keys:
\* yields the proxy as rewritten and the table as left behind
CompileRegexp(proxy, keys) ==
    LET Compiled(toCheck, scan, params) ==
            [proxy |-> [proxy EXCEPT
                           !.scheme = scan.scheme, !.indices = scan.indices,
                           !.parameters = params,
                           !.regexp = ReplaceParameters("^" \o Quotemeta(scan.scheme) \o "$",
                                                        params, Len(params))],
             keys  |-> toCheck]
        Sorted(toCheck, scan) ==
            Compiled(toCheck, scan, SortByIndex(scan.parameters, scan.indices))
        Checked(toCheck) ==
            Sorted(toCheck, ScanParameters([scheme |-> proxy.scheme, indices |-> NoIndices,
                                            parameters |-> <<>>], toCheck, 1))
    IN  Checked(IF proxy.multiHost THEN AddHostParameter(keys) ELSE keys)

(***************************************************************************)
(* RegExp.prototype.exec for the expressions compileRegexp builds: "^",    *)
(* then literal characters (escaped or not), lazy groups (.*?) and host    *)
(* groups ([a-zA-Z0-9]+\.[a-zA-Z0-9.]+), then "$".  The match found is the *)
(* one a backtracking matcher finds first.                                 *)
(***************************************************************************)
RECURSIVE RegexpPieces(_, _)
\* the expression between its anchors as a sequence of pieces, a run of literal
\* characters being one piece; lit is the run read so far
RegexpPieces(re, lit) ==
    LET Literal == IF lit = "" THEN <<>> ELSE <<[kind |-> "lit", text |-> lit]>>
    IN  IF re = "" THEN Literal
        ELSE IF OccursAt(re, HostFragment, 0)
             THEN Literal \o <<[kind |-> "host", text |-> ""]>>
                    \o RegexpPieces(SubstrFrom(re, Len(HostFragment)), "")
        ELSE IF OccursAt(re, AnyFragment, 0)
             THEN Literal \o <<[kind |-> "any", text |-> ""]>>
                    \o RegexpPieces(SubstrFrom(re, Len(AnyFragment)), "")
        ELSE IF CharAt(re, 0) = "\\"
             THEN RegexpPieces(SubstrFrom(re, 2), lit \o CharAt(re, 1))
        ELSE RegexpPieces(SubstrFrom(re, 1), lit \o CharAt(re, 0))

NoMatch == [ok |-> FALSE, caps |-> <<>>]

RECURSIVE AlnumRun(_, _)
\* the length of the longest run of [a-zA-Z0-9] in s from pos on
AlnumRun(s, pos) == IF CharAt(s, pos) \in AlnumSet THEN 1 + AlnumRun(s, pos + 1) ELSE 0

RECURSIVE AlnumDotRun(_, _)
\* the length of the longest run of [a-zA-Z0-9.] in s from pos on
AlnumDotRun(s, pos) ==
    IF CharAt(s, pos) \in AlnumSet \/ CharAt(s, pos) = "." THEN 1 + AlnumDotRun(s, pos + 1) ELSE 0

RECURSIVE MatchPieces(_, _, _, _)
RECURSIVE MatchAny(_, _, _, _, _)
RECURSIVE MatchHost(_, _, _, _, _, _)

\* pieces k.. against s from pos to the end of s: [ok, caps], caps the groups' captures
MatchPieces(pieces, k, s, pos) ==
    IF k > Len(pieces) THEN [ok |-> pos = Len(s), caps |-> <<>>]
    ELSE CASE pieces[k].kind = "lit" ->
                IF OccursAt(s, pieces[k].text, pos)
                THEN MatchPieces(pieces, k + 1, s, pos + Len(pieces[k].text))
                ELSE NoMatch
           [] pieces[k].kind = "any" -> MatchAny(pieces, k, s, pos, 0)
           [] pieces[k].kind = "host" ->
                MatchHost(pieces, k, s, pos, AlnumRun(s, pos), -1)

\* a lazy group: the shortest capture, from n characters on, after which the rest matches
MatchAny(pieces, k, s, pos, n) ==
    IF pos + n > Len(s) THEN NoMatch
    ELSE LET r == MatchPieces(pieces, k + 1, s, pos + n)
         IN  IF r.ok THEN [ok |-> TRUE, caps |-> <<Substr(s, pos, n)>> \o r.caps]
             ELSE MatchAny(pieces, k, s, pos, n + 1)

\* a host group: the longest first run (at most n1), then the longest second run (at most
\* n2, -1 for its longest), after which the rest matches
MatchHost(pieces, k, s, pos, n1, n2) ==
    IF n1 < 1 THEN NoMatch
    ELSE IF CharAt(s, pos + n1) # "." THEN MatchHost(pieces, k, s, pos, n1 - 1, -1)
    ELSE IF n2 = -1 THEN MatchHost(pieces, k, s, pos, n1, AlnumDotRun(s, pos + n1 + 1))
    ELSE IF n2 < 1 THEN MatchHost(pieces, k, s, pos, n1 - 1, -1)
    ELSE LET r == MatchPieces(pieces, k + 1, s, pos + n1 + 1 + n2)
         IN  IF r.ok THEN [ok |-> TRUE, caps |-> <<Substr(s, pos, n1 + 1 + n2)>> \o r.caps]
             ELSE MatchHost(pieces, k, s, pos, n1, n2 - 1)

\* proxy.regexp.exec(URL): [ok, m], m[1] the whole match and m[i+1] the i-th capture
RegexpExec(re, URL) ==
    LET MatchArray(r) == [ok |-> r.ok, m |-> IF r.ok THEN <<URL>> \o r.caps ELSE <<>>]
    IN  MatchArray(MatchPieces(RegexpPieces(Substr(re, 1, Len(re) - 2), ""), 1, URL, 0))

\* m[i] of a match array, 0-based, undefined past its end
MatchAt(m, i) == IF i + 1 \in DOMAIN m THEN m[i + 1] ELSE Undefined

\* string concatenation's rendering of a value
Str(v) == IF v = Undefined THEN "undefined" ELSE v

\* m[this.parameters.indexOf(param)+1]
MatchOf(proxy, m, param) == MatchAt(m, SeqIndexOf(proxy.parameters, param) + 1)

\* Zotero.Proxy.prototype.toProper
ToProper(proxy, m) ==
    LET Path(properURL, dir) ==
            IF "%p" \in DOMAIN proxy.indices /\ proxy.indices["%p"] # 0
            THEN properURL \o Str(MatchOf(proxy, m, "%p"))
            ELSE properURL \o (IF dir # "" THEN Str(dir) \o "/" ELSE "")
                   \o Str(MatchOf(proxy, m, "%f"))
    IN  Path(IF proxy.multiHost THEN "http://" \o Str(MatchOf(proxy, m, "%h")) \o "/"
             ELSE "http://" \o Str(IF Len(proxy.hosts) > 0 THEN proxy.hosts[1] ELSE Undefined)
                    \o "/",
             MatchOf(proxy, m, "%d"))

\* the value toProxy substitutes for param
ProxyValue(param, uri) ==
    CASE param = "%h" -> uri.host
      [] param = "%p" -> SubstrFrom(uri.path, 1)
      [] param = "%d" -> Substr(uri.path, 0, LastIndexOf(uri.path, "/"))
      [] param = "%f" -> SubstrFrom(uri.path, LastIndexOf(uri.path, "/") + 1)
      [] OTHER -> ""

RECURSIVE SubstituteParameters(_, _, _, _)
\* the reverse loop of toProxy, from parameters[i] down to parameters[1]
SubstituteParameters(proxyURL, proxy, uri, i) ==
    LET Substitute(at, value) ==
            Substr(proxyURL, 0, at) \o value \o SubstrFrom(proxyURL, at + 2)
    IN  IF i = 0 THEN proxyURL
        ELSE SubstituteParameters(
                 Substitute(proxy.indices[proxy.parameters[i]],
                            ProxyValue(proxy.parameters[i], uri)),
                 proxy, uri, i - 1)

\* Zotero.Proxy.prototype.toProxy
ToProxy(proxy, uri) == SubstituteParameters(proxy.scheme, proxy, uri, Len(proxy.parameters))

(***************************************************************************)
(* Values handed over by the transport.  A header list is                  *)
(*   [kind |-> "array", items |-> <<[name, value], ...>>]   as delivered,  *)
(*   [kind |-> "object", items |-> ...]   after _processHeaders,           *)
(*   [kind |-> "undefined", items |-> <<>>]   where nothing is stored.     *)
(***************************************************************************)
HeaderArray(items) == [kind |-> "array", items |-> items]
NoHeaders == [kind |-> "undefined", items |-> <<>>]

\* _processHeaders: an array becomes an object keyed by the lower-cased names
ProcessHeaders(headers) ==
    IF headers.kind # "array" THEN headers
    ELSE [kind |-> "object",
          items |-> [i \in DOMAIN headers.items |->
                        [name |-> ToLowerCase(headers.items[i].name),
                         value |-> headers.items[i].value]]]

\* headers[name]: the value last stored under name; an array has no such property
HeaderValue(headers, name) ==
    LET I == {i \in DOMAIN headers.items : headers.items[i].name = name}
    IN  IF headers.kind # "object" \/ I = {} THEN Undefined
        ELSE headers.items[MaxOf(I)].value

\* a value the language treats as true in a condition
Truthy(v) == v # Undefined /\ v # ""

\* details.requestID as the handlers read it: the transport's records name the field
\* requestId, so the property read is undefined and every record yields the same key
RequestID(details) == Undefined

Range(seq) == {seq[i] : i \in DOMAIN seq}

EndsWith(s, suffix) == Len(suffix) <= Len(s) /\ OccursAt(s, suffix, Len(s) - Len(suffix))

\* _isBlacklisted
IsBlacklisted(host) ==
    /\ \/ EndsWith(host, "edu")
       \/ EndsWith(host, "google.com")
       \/ EndsWith(host, "wikipedia.org")
       \/ IndexOf(host, ".") = -1
       \/ EndsWith(host, "doubleclick.net")
    /\ ~(host = "scholar.google.com" \/ host = "muse.jhu.edu")

(***************************************************************************)
(* The registry part of Zotero.Proxies.  z is the singleton as a record;   *)
(* z.proxies is the array of proxy objects, an object's identity is its    *)
(* position in it, and z.hosts maps a host to such a position.             *)
(***************************************************************************)
\* the list save hands to Zotero.Prefs.set
PersistedProxies(proxies) ==
    [i \in DOMAIN proxies |->
        [multiHost |-> proxies[i].multiHost, autoAssociate |-> proxies[i].autoAssociate,
         scheme |-> proxies[i].scheme, hosts |-> proxies[i].hosts]]

\* Zotero.Proxies.save(proxy): proxy is the object as it now is, idx its position in
\* z.proxies, 0 for an object that is not in the list.  Yields [z, keys].
Save(z, keys, idx, proxy) ==
    LET Indexed(pos, proxies, listed, keys2) ==
            [z |-> [z EXCEPT
                      !.proxies = proxies,
                      !.hosts = [h \in {x \in DOMAIN z.hosts :
                                           ~(z.hosts[x] = pos /\ x \notin listed)}
                                        \cup listed |->
                                    IF h \in listed THEN pos ELSE z.hosts[h]],
                      !.prefs = PersistedProxies(proxies)],
             keys |-> keys2]
        Listed(pos, proxies, keys2) ==
            Indexed(pos, proxies, Range(proxies[pos].hosts), keys2)
        Compiled(c) ==
            IF idx = 0 THEN Listed(Len(z.proxies) + 1, Append(z.proxies, c.proxy), c.keys)
            ELSE Listed(idx, [z.proxies EXCEPT ![idx] = c.proxy], c.keys)
    IN  Compiled(IF proxy.regexp = "" THEN CompileRegexp(proxy, keys)
                 ELSE [proxy |-> proxy, keys |-> keys])

RECURSIVE FirstMatchFrom(_, _, _, _)
\* the loop over the list from position i on: the first proxy with a regexp (and, with
\* multiHostOnly, multiHost set) that matches URL: [idx, m], idx = 0 where none does
FirstMatchFrom(proxies, URL, multiHostOnly, i) ==
    LET Matched(r) ==
            IF r.ok THEN [idx |-> i, m |-> r.m]
            ELSE FirstMatchFrom(proxies, URL, multiHostOnly, i + 1)
    IN  IF i > Len(proxies) THEN [idx |-> 0, m |-> <<>>]
        ELSE IF proxies[i].regexp = "" \/ (multiHostOnly /\ ~proxies[i].multiHost)
        THEN FirstMatchFrom(proxies, URL, multiHostOnly, i + 1)
        ELSE Matched(RegexpExec(proxies[i].regexp, URL))

FirstMatch(proxies, URL, multiHostOnly) == FirstMatchFrom(proxies, URL, multiHostOnly, 1)

\* Zotero.Proxies.proxyToProper(URL, true): "" stands for false
ProxyToProper(z, URL) ==
    LET Proper(f) == IF f.idx = 0 THEN "" ELSE ToProper(z.proxies[f.idx], f.m)
    IN  Proper(FirstMatch(z.proxies, URL, FALSE))

\* Zotero.Proxies.properToProxy(URL, true): "" stands for false
ProperToProxy(z, URL) ==
    LET Proxied(uri) ==
            IF uri.host \in DOMAIN z.hosts THEN ToProxy(z.proxies[z.hosts[uri.host]], uri)
            ELSE ""
    IN  Proxied(UrlParse(URL))

(***************************************************************************)
(* The verdict of a handler: Pass (nothing returned), Redirect(to), Cancel *)
(* and Throw (an exception left the handler).                              *)
(***************************************************************************)
Pass == [kind |-> "NoRedirect", to |-> ""]
Redirect(to) == [kind |-> "Redirect", to |-> to]
Throw == [kind |-> "Throw", to |-> ""]
Cancel == [kind |-> "Cancel", to |-> ""]

\* top2DomainsRe.exec(hostname): the last two labels, "" for null; dot is the position of
\* the last dot and dot2 that of the one before it
Top2Domains(hostname) ==
    LET Labels(dot, dot2) ==
            IF dot <= 0 \/ dot = Len(hostname) - 1 \/ dot2 = dot - 1 THEN ""
            ELSE SubstrFrom(hostname, dot2 + 1)
        LastDot(dot) == Labels(dot, LastIndexOf(Substr(hostname, 0, dot), "."))
    IN  LastDot(LastIndexOf(hostname, "."))

\* a _maybeRedirect that lets every pair of hostnames through its last test
AnyTop2(requestURL, proxiedURI) == FALSE

\* the top-two-domains test of _maybeRedirect: !top21 || !top22 || top21[0] == top22[0]
SameTop2(requestURL, proxiedURI) ==
    LET Same(top21, top22) == top21 = "" \/ top22 = "" \/ top21 = top22
    IN  Same(Top2Domains(UrlParse(requestURL).hostname), Top2Domains(proxiedURI.hostname))

\* _maybeRedirect(details, proxied); details.requestHeaders is requestHeaders, and reading
\* a property of undefined throws
MaybeRedirect(z, details, requestHeaders, proxied) ==
    LET Guards(referer, proxiedURI) ==
            IF Truthy(referer) /\ ProperToProxy(z, referer) # "" THEN Pass
            ELSE IF Truthy(referer) /\ UrlParse(referer).hostname = proxiedURI.hostname
                 THEN Pass
            ELSE IF details.originUrl # "" /\ ProxyToProper(z, details.originUrl) # ""
                 THEN Pass
            ELSE IF /\ details.originUrl # ""
                    /\ UrlParse(details.originUrl).hostname = proxiedURI.hostname
                 THEN Pass
            ELSE IF SameTop2(details.url, proxiedURI) THEN Pass
            ELSE Redirect(proxied)
    IN  IF requestHeaders.kind = "undefined" THEN Throw
        ELSE Guards(HeaderValue(requestHeaders, "referer"), UrlParse(proxied))

(***************************************************************************)
(* chrome.webRequest listeners.  A registration is the record              *)
(*   [event, urls, method, bound, probe]:                                  *)
(* method names the function, bound says whether the registered function   *)
(* is the result of method.bind(...) (a function object of its own), and   *)
(* probe numbers the EZProxy.Listener instance it is bound to (0: the      *)
(* Zotero.Proxies singleton).                                              *)
(***************************************************************************)
AllUrls == "<all_urls>"

Registration(event, urls, method, bound, probe) ==
    [event |-> event, urls |-> urls, method |-> method, bound |-> bound, probe |-> probe]

\* event.removeListener(fn): drops the registrations of that very function
RemoveListener(listeners, event, method, bound, probe) ==
    SelectSeq(listeners,
              LAMBDA l : ~(l.event = event /\ l.method = method
                             /\ l.bound = bound /\ l.probe = probe))

\* Zotero.Proxies.enable
Enable(listeners) ==
    listeners \o
    << Registration("onBeforeSendHeaders", AllUrls, "storeRequestHeaders", TRUE, 0),
       Registration("onErrorOccurred", AllUrls, "removeRequestHeaders", TRUE, 0),
       Registration("onCompleted", AllUrls, "removeRequestHeaders", TRUE, 0),
       Registration("onHeadersReceived", AllUrls, "observe", TRUE, 0) >>

\* the number the next EZProxy.Listener instance gets
NextProbe(listeners) == MaxOf({0} \cup {listeners[i].probe : i \in DOMAIN listeners}) + 1

\* new Zotero.Proxies.Detectors.EZProxy.Listener(requestURL): [ignoreURLs, listeners]
NewListener(ignoreURLs, listeners, requestURL) ==
    LET Registrations(n) ==
            << Registration("onBeforeSendHeaders", requestURL, "onBeforeSendHeaders", TRUE, n),
               Registration("onHeadersReceived", requestURL, "onHeadersReceived", TRUE, n),
               Registration("onErrorOccurred", requestURL, "deregister", TRUE, n) >>
    IN  [ignoreURLs |-> ignoreURLs \cup {requestURL},
         listeners  |-> listeners \o Registrations(NextProbe(listeners))]

\* what deregister is called with: an array holding a string, or nothing
ArrayArg(s) == [kind |-> "array", value |-> s]
NoArg == [kind |-> "undefined", value |-> ""]

\* Set.prototype.delete(arg): only a string is ever a member
SetDelete(set, arg) == IF arg.kind = "string" THEN set \ {arg.value} ELSE set

\* Listener.prototype.deregister(requestURL) of instance probe: [ignoreURLs, listeners];
\* the functions handed to removeListener are the prototype's, not the bound ones
Deregister(ignoreURLs, listeners, probe, requestURL) ==
    [ignoreURLs |-> SetDelete(ignoreURLs, requestURL),
     listeners  |->
        RemoveListener(
            RemoveListener(
                RemoveListener(listeners, "onBeforeSendHeaders", "onBeforeSendHeaders", FALSE, probe),
                "onHeadersReceived", "onHeadersReceived", FALSE, probe),
            "onErrorOccurred", "deregister", FALSE, probe)]

(***************************************************************************)
(* Zotero.Proxies.Detectors.  A detector's return value is                 *)
(* [found, threw, proxy]: found = FALSE stands for false,                  *)
(* threw = TRUE stands for an exception that left the detector.            *)
(***************************************************************************)
NotDetected == [found |-> FALSE, threw |-> FALSE, proxy |-> NewProxy]
Detected(proxy) == [found |-> TRUE, threw |-> FALSE, proxy |-> proxy]
Thrown == [found |-> FALSE, threw |-> TRUE, proxy |-> NewProxy]

\* whether /(url|qurl)=[^&]/ matches q at position i
TargetAt(q, i) ==
    \/ OccursAt(q, "url=", i) /\ i + 4 < Len(q) /\ CharAt(q, i + 4) # "&"
    \/ OccursAt(q, "qurl=", i) /\ i + 5 < Len(q) /\ CharAt(q, i + 5) # "&"

RECURSIVE FirstTarget(_, _)
\* the leftmost position of q, from i on, where the expression matches; -1 if none
FirstTarget(q, i) ==
    IF i + 5 > Len(q) THEN -1
    ELSE IF TargetAt(q, i) THEN i
    ELSE FirstTarget(q, i + 1)

\* /(url|qurl)=([^&]+)/i.exec(query): [ok, key, value]
QueryTarget(query) ==
    LET Match(i, start) ==
            [ok |-> TRUE, key |-> Substr(query, i, start - 1 - i),
             value |-> Substr(query, start, FirstOfFrom(query, {"&"}, start) - start)]
        Found(i) ==
            IF i = -1 THEN [ok |-> FALSE, key |-> "", value |-> ""]
            ELSE Match(i, IF LowerChar(CharAt(query, i)) = "q" THEN i + 5 ELSE i + 4)
    IN  Found(FirstTarget(ToLowerCase(query), 0))

\* the escapes decodeURI turns back into characters, among those of the modelled alphabet
\* (it leaves the escapes of reserved characters, such as %2F and %3A, as they are)
DecodedEscapes == [x \in {"%2D", "%2E", "%5F", "%7E"} |->
                      CASE x = "%2D" -> "-" [] x = "%2E" -> "." [] x = "%5F" -> "_" [] OTHER -> "~"]

HexSet == DigitSet \cup CharSet("abcdefABCDEF")

\* whether decodeURI(s) throws a URIError: a "%" that two hexadecimal digits do not follow
IsMalformedURI(s) ==
    \E i \in 0 .. Len(s) - 1 :
        /\ CharAt(s, i) = "%"
        /\ ~(CharAt(s, i + 1) \in HexSet /\ CharAt(s, i + 2) \in HexSet)

RECURSIVE DecodeURI(_)
\* decodeURI(s) where it does not throw
DecodeURI(s) ==
    IF s = "" THEN ""
    ELSE IF Substr(s, 0, 3) \in DOMAIN DecodedEscapes
         THEN DecodedEscapes[Substr(s, 0, 3)] \o DecodeURI(SubstrFrom(s, 3))
         ELSE CharAt(s, 0) \o DecodeURI(SubstrFrom(s, 1))

\* String.prototype.replace(pattern, replacement) for a string pattern: the first occurrence
ReplaceFirst(s, pattern, replacement) ==
    IF IndexOf(s, pattern) = -1 THEN s
    ELSE Before(s, pattern) \o replacement \o SubstrFrom(From(s, pattern), Len(pattern))

\* [80, 443].indexOf(port) != -1: the members are numbers and a parsed URL's port is a
\* string or null, which indexOf's strict comparison never finds equal
IsStandardPort(port) == FALSE

\* Zotero.Proxies.Detectors.EZProxy.learn
EZProxyLearn(z, loginURI, proxiedURI) ==
    LET Proxy(properURI) ==
            IF properURI.protocol = "" THEN NotDetected
            ELSE IF /\ loginURI.hostname = proxiedURI.hostname
                    /\ (proxiedURI.port = "" \/ ~(proxiedURI.port = loginURI.port
                                                   \/ IsStandardPort(proxiedURI.port)))
                 THEN \* proxy by port
                      Detected([NewProxy EXCEPT
                          !.multiHost = FALSE,
                          !.scheme = proxiedURI.protocol \o "//" \o proxiedURI.host \o "/%p",
                          !.hosts = <<properURI.host>>])
            ELSE IF /\ proxiedURI.hostname # loginURI.hostname
                    /\ IndexOf(proxiedURI.host, properURI.hostname) # -1
                 THEN \* proxy by host
                      Detected([NewProxy EXCEPT
                          !.multiHost = TRUE, !.autoAssociate = TRUE,
                          !.scheme = proxiedURI.protocol \o "//"
                                       \o ReplaceFirst(proxiedURI.host, properURI.hostname, "%h")
                                       \o "/%p",
                          !.hosts = <<properURI.host>>])
            ELSE NotDetected
        Target(m) ==
            IF ~m.ok THEN NotDetected
            ELSE IF ProxyToProper(z, proxiedURI.href) # "" THEN NotDetected
            ELSE IF ToLowerCase(m.key) = "qurl" /\ IsMalformedURI(m.value) THEN Thrown
            ELSE Proxy(UrlParse(IF ToLowerCase(m.key) = "qurl" THEN DecodeURI(m.value)
                                ELSE m.value))
    IN  Target(QueryTarget(loginURI.query))

\* Zotero.Proxies.Detectors.EZProxy(details), details.responseHeaders processed:
\* [ret, ignoreURLs, listeners, xhr], xhr the URL of the request it sends, "" for none.
\* ends is [ok, from, to]: fromProxy and toProxy as lines 560-572 leave them, ok = FALSE
\* where one of them stays false (url.parse of undefined throws); f is what the loop of
\* line 576 leaves where it is reached
EZProxy(z, listeners, details) ==
    LET Quiet(ret) ==
            [ret |-> ret, ignoreURLs |-> z.ignoreURLs, listeners |-> listeners, xhr |-> ""]
        Probe(href) ==
            [ret |-> NotDetected, xhr |-> href] @@ NewListener(z.ignoreURLs, listeners, href)
        Matched(location, toProxy, f) ==
            IF f.idx # 0
            THEN IF z.proxies[f.idx].multiHost \/ ProxyToProper(z, toProxy.href) # ""
                 THEN Quiet(NotDetected)
                 ELSE Probe(toProxy.href)
            ELSE IF location = Undefined THEN Quiet(NotDetected)
            ELSE IF \/ UrlParse(location).protocol = ""
                    \/ details.statusCode # 302
                    \/ HeaderValue(details.responseHeaders, "server") # "EZproxy"
                 THEN Quiet(NotDetected)
            ELSE Quiet(EZProxyLearn(z, UrlParse(details.url), UrlParse(location)))
        Link(uri, location, ends) ==
            Matched(location, ends.to,
                    IF /\ (uri.port = "" \/ ~IsStandardPort(uri.port))
                       /\ ends.ok
                       /\ ends.from.hostname = ends.to.hostname
                       /\ ends.from.port # ends.to.port
                       /\ (ends.to.port = "" \/ ~IsStandardPort(ends.to.port))
                    THEN FirstMatch(z.proxies, ends.from.href, FALSE)
                    ELSE [idx |-> 0, m |-> <<>>])
        Ends(uri, location, referer) ==
            Link(uri, location,
                 IF details.statusCode \in {301, 302, 303}
                 THEN IF location = Undefined THEN [ok |-> FALSE, from |-> uri, to |-> uri]
                      ELSE [ok |-> TRUE, from |-> uri, to |-> UrlParse(location)]
                 ELSE IF referer = Undefined THEN [ok |-> FALSE, from |-> uri, to |-> uri]
                      ELSE [ok |-> TRUE, from |-> UrlParse(referer), to |-> uri])
    IN  Ends(UrlParse(details.url), HeaderValue(details.responseHeaders, "location"),
             HeaderValue(details.responseHeaders, "referer"))

\* juniperRe.exec(url): [ok, base, host], base = m[1] and host = m[3].  prefix is the
\* length of "http://" or "https://", hostEnd where [^\/:]+ ends, portEnd where
\* (?:\:[0-9]+)? ends, dana where ",DanaInfo=" starts
JuniperExec(URL) ==
    LET Match(portEnd, dana) ==
            IF CharAt(URL, portEnd) = "/" /\ dana > portEnd
            THEN [ok |-> TRUE, base |-> Substr(URL, 0, portEnd),
                  host |-> Substr(URL, dana + 10,
                                  FirstOfFrom(URL, {"+", ","}, dana + 10) - (dana + 10))]
            ELSE [ok |-> FALSE, base |-> "", host |-> ""]
        Port(hostEnd, portEnd) ==
            Match(IF /\ CharAt(URL, hostEnd) = ":"
                     /\ portEnd > hostEnd + 1
                     /\ AllIn(Substr(URL, hostEnd + 1, portEnd - hostEnd - 1), DigitSet)
                  THEN portEnd ELSE hostEnd,
                  LastIndexOf(URL, ",DanaInfo="))
        Host(prefix, hostEnd) ==
            IF prefix = -1 \/ hostEnd <= prefix THEN [ok |-> FALSE, base |-> "", host |-> ""]
            ELSE Port(hostEnd, FirstOfFrom(URL, {"/"}, hostEnd + 1))
        Scheme(prefix) == Host(prefix, FirstOfFrom(URL, {"/", ":"}, prefix))
    IN  Scheme(IF OccursAt(URL, "https://", 0) THEN 8
               ELSE IF OccursAt(URL, "http://", 0) THEN 7 ELSE -1)

\* Zotero.Proxies.Detectors.Juniper
Juniper(details) ==
    LET Proxy(m) ==
            IF ~m.ok THEN NotDetected
            ELSE Detected([NewProxy EXCEPT
                     !.multiHost = TRUE, !.autoAssociate = FALSE,
                     !.scheme = m.base \o "/%d" \o ",DanaInfo=%h%a+%f",
                     !.hosts = <<m.host>>])
    IN  Proxy(JuniperExec(details.url))

(***************************************************************************)
(* The handlers.  w is everything a handler can change:                    *)
(*   z          Zotero.Proxies (with the stored 'proxies.proxies' pref),   *)
(*   keys       the keys of Zotero_Proxy_schemeParameters,                 *)
(*   listeners  the webRequest registrations, in registration order,       *)
(*   timeouts   the setTimeout callbacks not yet run, oldest first,        *)
(*   lookups    the getHostnames promises not yet settled,                 *)
(*   issued     the times at which getHostnames was called (history),      *)
(*   xhrs       the URLs of XMLHttpRequests sent and not yet on the wire.  *)
(***************************************************************************)
\* 15 * 60 * 1000
IPCheckInterval == 900000

\* Zotero.Proxies.updateDisabledByDomain at time t
UpdateDisabledByDomain(w, t) ==
    IF t - w.z.lastIPCheck > IPCheckInterval
    THEN [w EXCEPT !.lookups = Append(@, t), !.issued = Append(@, t)]
    ELSE w

\* the then-callback of updateDisabledByDomain, for the call made at time t
HostnamesResolved(z, t, hostnames) ==
    LET Has(needle) ==
            \E i \in DOMAIN hostnames : IndexOf(ToLowerCase(hostnames[i]), needle) # -1
    IN  IF Has(IF z.disableByDomain = Null THEN "null" ELSE z.disableByDomain)
        THEN [z EXCEPT !.disabledByDomain = TRUE]
        ELSE [z EXCEPT !.disabledByDomain = FALSE, !.lastIPCheck = t]

\* Zotero.Proxies.newProxyFromJSON / Zotero.Proxy.prototype.loadFromJSON: [proxy, keys]
LoadFromJSON(json, keys) ==
    CompileRegexp([NewProxy EXCEPT !.multiHost = json.multiHost,
                                   !.autoAssociate = json.autoAssociate,
                                   !.scheme = json.scheme,
                                   !.hosts = json.hosts], keys)

RECURSIVE LoadProxies(_, _, _)
\* the map over the stored list in init, from entry k on: [proxies, hosts, keys]; c is the
\* entry as loaded
LoadProxies(acc, stored, k) ==
    LET Loaded(c) ==
            [proxies |-> Append(acc.proxies, c.proxy),
             hosts   |-> [h \in DOMAIN acc.hosts \cup Range(c.proxy.hosts) |->
                             IF h \in Range(c.proxy.hosts) THEN k ELSE acc.hosts[h]],
             keys    |-> c.keys]
    IN  IF k > Len(stored) THEN acc
        ELSE LoadProxies(Loaded(LoadFromJSON(stored[k], acc.keys)), stored, k + 1)

\* Zotero.Proxies.init at time t, with the stored preferences prefs
ProxiesInitHandler(w, prefs, t) ==
    LET Enabled(w2) ==
            IF prefs.transparent
            THEN UpdateDisabledByDomain([w2 EXCEPT !.listeners = Enable(@)], t)
            ELSE w2
        Loaded(loaded) ==
            Enabled([w EXCEPT
                       !.keys = loaded.keys,
                       !.z.transparent = prefs.transparent,
                       !.z.autoRecognize = prefs.transparent /\ prefs.autoRecognize,
                       !.z.disableByDomain = IF prefs.transparent /\ prefs.disableByDomain
                                             THEN prefs.disableByDomainString ELSE Null,
                       !.z.showRedirectNotification = prefs.showRedirectNotification,
                       !.z.lastIPCheck = 0,
                       !.z.disabledByDomain = FALSE,
                       !.z.proxies = loaded.proxies,
                       !.z.hosts = loaded.hosts])
    IN  Loaded(LoadProxies([proxies |-> <<>>, hosts |-> w.z.hosts, keys |-> w.keys],
                           prefs.proxies, 1))

\* Zotero.Proxies.storeRequestHeaders
StoreRequestHeadersHandler(z, details) ==
    [z EXCEPT !.reqIDToHeaders =
        [k \in DOMAIN @ \cup {RequestID(details)} |->
            IF k = RequestID(details) THEN ProcessHeaders(details.requestHeaders) ELSE @[k]]]

\* Zotero.Proxies.removeRequestHeaders
RemoveRequestHeadersHandler(z, details) ==
    [z EXCEPT !.reqIDToHeaders = [k \in DOMAIN @ \ {RequestID(details)} |-> @[k]]]

\* Zotero.Proxies._reqIDToHeaders[details.requestID]
StoredRequestHeaders(z, details) ==
    IF RequestID(details) \in DOMAIN z.reqIDToHeaders
    THEN z.reqIDToHeaders[RequestID(details)] ELSE NoHeaders

\* the names of Zotero.Proxies.Detectors, last first
ReversedDetectors == <<"Juniper", "EZProxy">>

\* the names of Zotero.Proxies.Detectors in enumeration order
Detectors == <<"EZProxy", "Juniper">>

\* try { proxy = detector(details) } catch(e) {...} for the detector called name:
\* [ret, w]; after an exception proxy is still false
RunDetector(name, w, details) ==
    LET Returned(r) ==
            [ret |-> r.ret,
             w   |-> [w EXCEPT !.z.ignoreURLs = r.ignoreURLs,
                               !.listeners = r.listeners,
                               !.xhrs = IF r.xhr = "" THEN @ ELSE @ \cup {r.xhr}]]
    IN  IF name = "EZProxy" THEN Returned(EZProxy(w.z, w.listeners, details))
        ELSE [ret |-> Juniper(details), w |-> w]

\* w with what save left in s
Saved(w, s) == [w EXCEPT !.z = s.z, !.keys = s.keys]

RECURSIVE DetectorLoop(_, _, _)
\* the for-in loop of the callback from detector k on: the first proxy returned is saved
DetectorLoop(w, details, k) ==
    LET Returned(r) ==
            IF ~r.ret.found THEN DetectorLoop(r.w, details, k + 1)
            ELSE Saved(r.w, Save(r.w.z, r.w.keys, 0, r.ret.proxy))
    IN  IF k > Len(Detectors) THEN w
        ELSE Returned(RunDetector(Detectors[k], w, details))

\* the callback observe hands to setTimeout
DetectProxy(w, details) ==
    DetectorLoop(w, [details EXCEPT !.responseHeaders = ProcessHeaders(@)], 1)

\* a setTimeout that calls the callback before it returns
RunAtOnce(w, details) == DetectProxy(w, details)

\* setTimeout(function() {...}) in observe: the callback waits its turn
SetTimeout(w, details) == [w EXCEPT !.timeouts = Append(@, details)]

\* an association that asks nothing about the proxy or the host
AssociateUnguarded(z, keys, f, details) ==
    Save(z, keys, f.idx,
         [z.proxies[f.idx] EXCEPT !.hosts = Append(@, Str(MatchOf(z.proxies[f.idx], f.m, "%h")))])

\* the auto-association of observe, for the match f of the request URL: [z, keys]
Associate(z, keys, f, details) ==
    LET Host(proxy, host) ==
            IF /\ proxy.autoAssociate
               /\ details.statusCode < 400
               /\ host \notin DOMAIN z.hosts
               /\ host \notin Range(proxy.hosts)
               /\ ~IsBlacklisted(host)
            THEN Save(z, keys, f.idx, [proxy EXCEPT !.hosts = Append(@, host)])
            ELSE [z |-> z, keys |-> keys]
    IN  Host(z.proxies[f.idx], Str(MatchOf(z.proxies[f.idx], f.m, "%h")))

\* the condition of line 138 without its test of the status code
IgnoredURL(z, details) == details.url \in z.ignoreURLs

\* the condition of line 138
Ignored(z, details) == details.url \in z.ignoreURLs \/ details.statusCode >= 400

\* a gate that is never closed
NeverDisabled(z) == FALSE

\* recognition that is never off
AlwaysRecognize(z) == TRUE

\* Zotero.Proxies.autoRecognize as observe reads it
AutoRecognize(z) == z.autoRecognize

\* Zotero.Proxies.disabledByDomain as observe reads it
DisabledByDomain(z) == z.disabledByDomain

\* Zotero.Proxies.observe(details) at time t:
\* [w, verdict, deferred, proxied], proxied = "" where observe returned before line 202.
\* f is the match the loop of lines 147-152 leaves, w2 what line 199 leaves
ObserveHandler(w, details, t) ==
    LET Decided(w2, deferred, proxied) ==
            [w |-> w2,
             verdict |-> IF proxied = "" THEN Pass
                         ELSE MaybeRedirect(w2.z, details, StoredRequestHeaders(w2.z, details),
                                            proxied),
             deferred |-> deferred, proxied |-> proxied]
        Updated(w2, deferred) ==
            IF DisabledByDomain(w2.z)
            THEN [w |-> w2, verdict |-> Pass, deferred |-> deferred, proxied |-> ""]
            ELSE Decided(w2, deferred, ProperToProxy(w2.z, details.url))
        Matched(f) ==
            Updated(UpdateDisabledByDomain(
                        IF f.idx # 0 THEN Saved(w, Associate(w.z, w.keys, f, details))
                        ELSE IF AutoRecognize(w.z) THEN SetTimeout(w, details)
                        ELSE w, t),
                    f.idx = 0 /\ AutoRecognize(w.z))
    IN  IF Ignored(w.z, details)
        THEN [w |-> w, verdict |-> Pass, deferred |-> FALSE, proxied |-> ""]
        ELSE Matched(FirstMatch(w.z.proxies, details.url, TRUE))

\* w with what deregister left in d
Deregistered(w, d) == [w EXCEPT !.z.ignoreURLs = d.ignoreURLs, !.listeners = d.listeners]

\* Listener.prototype.onHeadersReceived of instance probe: [w, verdict, error]
ListenerOnHeadersReceived(w, probe, details) ==
    LET Learn(loginURI) ==
            IF \/ loginURI.protocol = ""
               \/ details.statusCode # 302
               \/ HeaderValue(details.responseHeaders, "server") # "EZproxy"
            THEN [w |-> w, verdict |-> Pass, error |-> FALSE]
            ELSE IF \/ EZProxyLearn(w.z, loginURI, UrlParse(details.url)).found
                    \/ EZProxyLearn(w.z, loginURI, UrlParse(details.url)).threw
            THEN \* the debug line names aSubject, which is not defined; learn may throw
                 [w |-> w, verdict |-> Throw, error |-> TRUE]
            ELSE [w |-> Deregistered(w, Deregister(w.z.ignoreURLs, w.listeners, probe, NoArg)),
                  verdict |-> Cancel, error |-> FALSE]
        Located(location) ==
            IF location = Undefined
            THEN \* url.parse throws and the catch returns false
                 [w |-> w, verdict |-> Pass, error |-> TRUE]
            ELSE Learn(UrlParse(location))
    IN  Located(HeaderValue(details.responseHeaders, "location"))

\* the function registered for onErrorOccurred: deregister.bind(this, [requestURL])
ListenerOnErrorOccurred(w, probe, requestURL) ==
    Deregistered(w, Deregister(w.z.ignoreURLs, w.listeners, probe, ArrayArg(requestURL)))

\* Listener.prototype.onBeforeSendHeaders: the headers it returns; the filter compares
\* the function header.name.toLowerCase with 'cookie', which never are equal
ListenerOnBeforeSendHeaders(details) ==
    SelectSeq(details.requestHeaders.items, LAMBDA header : TRUE)

(***************************************************************************)
(* The environment: what is stored in the preferences when init runs, the  *)
(* exchanges the transport may deliver, and what the hostname lookup may   *)
(* answer.  One environment is picked in the initial state.                *)
(***************************************************************************)
\* bounds of the model
MaxRequests == 2
MaxTicks == 2
\* Date.now() when the model starts, and the length of one step of the clock
StartTime == 2000000
TickLength == 500000

Header(name, value) == [name |-> name, value |-> value]

Exchange(url, statusCode, requestHeaders, responseHeaders, originUrl) ==
    [url |-> url, statusCode |-> statusCode,
     requestHeaders |-> HeaderArray(requestHeaders),
     responseHeaders |-> HeaderArray(responseHeaders), originUrl |-> originUrl]

Page(url, referer, originUrl) ==
    Exchange(url, 200, IF referer = "" THEN <<>> ELSE <<Header("Referer", referer)>>,
             <<Header("Content-Type", "text/html")>>, originUrl)

LoginRedirect(url, location) ==
    Exchange(url, 302, <<>>, <<Header("Server", "EZproxy"), Header("Location", location)>>, "")

StoredProxy(multiHost, autoAssociate, scheme, hosts) ==
    [multiHost |-> multiHost, autoAssociate |-> autoAssociate, scheme |-> scheme, hosts |-> hosts]

Prefs(proxies, transparent, autoRecognize, disableByDomain) ==
    [proxies |-> proxies, transparent |-> transparent, autoRecognize |-> autoRecognize,
     disableByDomain |-> disableByDomain, disableByDomainString |-> "lan",
     showRedirectNotification |-> TRUE]

HostProxy == StoredProxy(TRUE, TRUE, "http://%h.p.com/%p", <<"a.org", "x.p.com">>)
OuterProxy == StoredProxy(TRUE, FALSE, "http://%h.q.com/%p", <<"b.org.p.com">>)
PortProxy == StoredProxy(FALSE, FALSE, "http://p.com:1/%p", <<"a.org">>)

RedirectExchanges ==
    { Page("http://a.org/x", "", ""),
      Page("http://a.org/x", "http://a.org.p.com/y", ""),
      Page("http://x.p.com/x", "", ""),
      Page("http://b.org.p.com/x", "", ""),
      Exchange("http://c.org.p.com/x", 404, <<>>, <<>>, "") }

LearnExchanges ==
    { LoginRedirect("http://l.q.com/login?url=http://a.org/x", "http://a.org.q.com/x"),
      LoginRedirect("http://l.q.com/login?url=http://b-c.org/x", "http://b-c.org.q.com/x"),
      Exchange("http://a.org/x", 404, <<>>, <<>>, "") }

ProbeExchanges ==
    { Exchange("http://p.com:1/y", 302, <<>>, <<Header("Location", "http://p.com:2/z")>>, ""),
      LoginRedirect("http://p.com:2/z", "http://p.com:1/login?url=http://c.org/z") }

AssociateExchanges ==
    { Page("http://e.org.p.com/x", "", ""),
      Page("http://a.org.p.com/x", "", ""),
      Page("http://c.edu.p.com/x", "", ""),
      Page("http://d.org.q.com/x", "", "") }

OriginExchanges ==
    { Page("http://a.org/x", "", "http://b.org.q.com/y"),
      Page("http://a.org/x", "", "https://a.org.p.com/y"),
      Page("http://a.org/x", "", "http://o.org/") }

DetectExchanges ==
    { Exchange("http://v.com/l?qurl=%,DanaInfo=j.org+f", 302, <<>>,
               <<Header("Server", "EZproxy"), Header("Location", "http://j.org.v.com/f")>>, ""),
      LoginRedirect("http://l.q.com/d,DanaInfo=j.org+f?url=http://c.org/x",
                    "http://c.org.q.com/x") }

Environment(prefs, exchanges, hostnames, rejects, ticks) ==
    [prefs |-> prefs, exchanges |-> exchanges, hostnames |-> hostnames,
     rejects |-> rejects, ticks |-> ticks]

Environments ==
    { Environment(Prefs(<<HostProxy, OuterProxy>>, TRUE, FALSE, FALSE), RedirectExchanges,
                  {<<>>}, FALSE, 0),
      Environment(Prefs(<<HostProxy>>, TRUE, TRUE, FALSE), LearnExchanges, {<<>>}, FALSE, 0),
      Environment(Prefs(<<PortProxy>>, TRUE, TRUE, FALSE), ProbeExchanges, {<<>>}, FALSE, 0),
      Environment(Prefs(<<HostProxy>>, TRUE, TRUE, FALSE), DetectExchanges, {<<>>}, FALSE, 0),
      Environment(Prefs(<<HostProxy, OuterProxy>>, TRUE, FALSE, FALSE), AssociateExchanges,
                  {<<>>}, FALSE, 0),
      Environment(Prefs(<<HostProxy, OuterProxy>>, TRUE, FALSE, FALSE), OriginExchanges,
                  {<<>>}, FALSE, 0),
      Environment(Prefs(<<HostProxy>>, TRUE, FALSE, FALSE), LearnExchanges \cup ProbeExchanges,
                  {<<>>}, FALSE, 0),
      Environment(Prefs(<<HostProxy>>, TRUE, FALSE, TRUE), {Page("http://a.org/x", "", "")},
                  {<<>>, <<"PC.lan">>}, TRUE, MaxTicks),
      Environment(Prefs(<<HostProxy>>, FALSE, TRUE, TRUE), {Page("http://a.org/x", "", "")},
                  {<<>>}, FALSE, 0) }

(***************************************************************************)
(* The state.                                                              *)
(***************************************************************************)
VARIABLES
    env,               \* the environment picked
    initialized,       \* whether Zotero.Proxies.init has run
    Proxies,           \* the Zotero.Proxies singleton and the stored proxy list
    schemeParameters,  \* the keys of Zotero_Proxy_schemeParameters
    listeners,         \* chrome.webRequest registrations
    timeouts,          \* setTimeout callbacks not yet run
    lookups,           \* getHostnames promises not yet settled, by time of call
    issued,            \* the times of all getHostnames calls so far
    xhrs,              \* URLs requested by XMLHttpRequest, not yet on the wire
    now,               \* Date.now()
    requests,          \* the transport's requests: [ex, stage, pending]
    probeRuns,         \* per Listener instance, the observations and errors it handled
    last               \* the last handler run and what it returned

vars == <<env, initialized, Proxies, schemeParameters, listeners, timeouts, lookups, issued,
          xhrs, now, requests, probeRuns, last>>

World == [z |-> Proxies, keys |-> schemeParameters, listeners |-> listeners,
          timeouts |-> timeouts, lookups |-> lookups, issued |-> issued, xhrs |-> xhrs]

SetWorld(w) ==
    /\ Proxies' = w.z
    /\ schemeParameters' = w.keys
    /\ listeners' = w.listeners
    /\ timeouts' = w.timeouts
    /\ lookups' = w.lookups
    /\ issued' = w.issued
    /\ xhrs' = w.xhrs

Ran(op, id, verdict, error, deferred, proxied) ==
    [op |-> op, id |-> id, verdict |-> verdict, error |-> error, deferred |-> deferred,
     proxied |-> proxied]

\* the singleton as the module's top level leaves it (lines 40-44)
Constructed ==
    [transparent |-> FALSE, autoRecognize |-> FALSE, disableByDomain |-> Null,
     showRedirectNotification |-> FALSE, lastIPCheck |-> 0, disabledByDomain |-> FALSE,
     proxies |-> <<>>, hosts |-> [h \in {} |-> 0], prefs |-> <<>>,
     reqIDToHeaders |-> [k \in {} |-> NoHeaders], ignoreURLs |-> {}]

Init ==
    /\ env \in Environments
    /\ initialized = FALSE
    /\ Proxies = [Constructed EXCEPT !.prefs = env.prefs.proxies]
    /\ schemeParameters = InitialSchemeParameters
    /\ listeners = <<>>
    /\ timeouts = <<>>
    /\ lookups = <<>>
    /\ issued = <<>>
    /\ xhrs = {}
    /\ now = StartTime
    /\ requests = <<>>
    /\ probeRuns = [n \in {} |-> 0]
    /\ last = Ran("load", 0, Pass, FALSE, FALSE, "")

(***************************************************************************)
(* The actions: init, the transport's events as they reach the registered  *)
(* listeners, the event loop running a timeout callback, the settling of a *)
(* hostname lookup, and the clock.                                         *)
(***************************************************************************)
\* whether the singleton's method is registered for event
Registered(event, method) ==
    \E i \in DOMAIN listeners :
        listeners[i].event = event /\ listeners[i].method = method /\ listeners[i].probe = 0

\* the Listener registrations, in registration order, the event is dispatched to
ProbeListeners(ls, event, url) ==
    SelectSeq(ls, LAMBDA l : l.event = event /\ l.probe # 0 /\ l.urls = url)

\* the registrations a request's current event has still to reach
Pending(id) == SelectSeq(requests[id].pending, LAMBDA l : l \in Range(listeners))

BeforeSendDetails(id, ex) ==
    [requestId |-> id, url |-> ex.url, requestHeaders |-> ex.requestHeaders]

\* the details of a response without the originating page
DetailsWithoutOrigin(id, ex) ==
    [requestId |-> id, url |-> ex.url, statusCode |-> ex.statusCode,
     responseHeaders |-> ex.responseHeaders, originUrl |-> ""]

ResponseDetails(id, ex) ==
    [requestId |-> id, url |-> ex.url, statusCode |-> ex.statusCode,
     responseHeaders |-> ex.responseHeaders, originUrl |-> ex.originUrl]

CountRun(probe) ==
    probeRuns' = [n \in DOMAIN probeRuns \cup {probe} |->
                     IF n = probe THEN (IF n \in DOMAIN probeRuns THEN probeRuns[n] ELSE 0) + 1
                     ELSE probeRuns[n]]

\* Zotero.Proxies.init
ProxiesInit ==
    /\ ~initialized
    /\ initialized' = TRUE
    /\ SetWorld(ProxiesInitHandler(World, env.prefs, now))
    /\ last' = Ran("init", 0, Pass, FALSE, FALSE, "")
    /\ UNCHANGED <<env, now, requests, probeRuns>>

\* onBeforeSendHeaders of a new request: Zotero.Proxies.storeRequestHeaders
StoreRequestHeaders(ex) ==
    /\ Registered("onBeforeSendHeaders", "storeRequestHeaders")
    /\ Len(requests) < MaxRequests
    /\ Proxies' = StoreRequestHeadersHandler(Proxies, BeforeSendDetails(Len(requests) + 1, ex))
    /\ requests' = Append(requests,
                          [ex |-> ex, stage |-> "sent",
                           pending |-> ProbeListeners(listeners, "onBeforeSendHeaders", ex.url)])
    /\ xhrs' = xhrs \ {ex.url}
    /\ last' = Ran("storeRequestHeaders", Len(requests) + 1, Pass, FALSE, FALSE, "")
    /\ UNCHANGED <<env, initialized, schemeParameters, listeners, timeouts, lookups, issued,
                   now, probeRuns>>

\* onBeforeSendHeaders reaching a Listener instance: Listener.prototype.onBeforeSendHeaders
ListenerBeforeSendHeaders(id) ==
    /\ requests[id].stage = "sent"
    /\ Pending(id) # <<>>
    /\ Head(Pending(id)).method = "onBeforeSendHeaders"
    /\ requests' = [requests EXCEPT ![id].pending = Tail(Pending(id))]
    /\ last' = Ran("Listener.onBeforeSendHeaders", id, Pass,
                   Len(ListenerOnBeforeSendHeaders(BeforeSendDetails(id, requests[id].ex)))
                     # Len(requests[id].ex.requestHeaders.items),
                   FALSE, "")
    /\ UNCHANGED <<env, initialized, Proxies, schemeParameters, listeners, timeouts, lookups,
                   issued, xhrs, now, probeRuns>>

\* onHeadersReceived: Zotero.Proxies.observe, which returns r
Observe(id) ==
    LET Observed(r) ==
            /\ SetWorld(r.w)
            /\ requests' = [requests EXCEPT
                              ![id].stage = "observed",
                              ![id].pending = ProbeListeners(r.w.listeners, "onHeadersReceived",
                                                             requests[id].ex.url)]
            /\ last' = Ran("observe", id, r.verdict, r.verdict.kind = "Throw", r.deferred,
                           r.proxied)
    IN  /\ Registered("onHeadersReceived", "observe")
        /\ requests[id].stage = "sent"
        /\ Pending(id) = <<>>
        /\ Observed(ObserveHandler(World, ResponseDetails(id, requests[id].ex), now))
        /\ UNCHANGED <<env, initialized, now, probeRuns>>

\* onHeadersReceived reaching a Listener instance: Listener.prototype.onHeadersReceived,
\* which returns r
ListenerHeadersReceived(id) ==
    LET Returned(r) ==
            /\ SetWorld(r.w)
            /\ last' = Ran("Listener.onHeadersReceived", id, r.verdict, r.error, FALSE, "")
    IN  /\ requests[id].stage = "observed"
        /\ Pending(id) # <<>>
        /\ Head(Pending(id)).method = "onHeadersReceived"
        /\ Returned(ListenerOnHeadersReceived(World, Head(Pending(id)).probe,
                                              ResponseDetails(id, requests[id].ex)))
        /\ CountRun(Head(Pending(id)).probe)
        /\ requests' = [requests EXCEPT ![id].pending = Tail(Pending(id))]
        /\ UNCHANGED <<env, initialized, now>>

\* onCompleted or onErrorOccurred: Zotero.Proxies.removeRequestHeaders
RemoveRequestHeaders(id, event) ==
    /\ Registered(event, "removeRequestHeaders")
    /\ requests[id].stage \in (IF event = "onErrorOccurred" THEN {"sent", "observed"}
                               ELSE {"observed"})
    /\ Pending(id) = <<>>
    /\ Proxies' = RemoveRequestHeadersHandler(Proxies,
                                              [requestId |-> id, url |-> requests[id].ex.url])
    /\ requests' = [requests EXCEPT
                      ![id].stage = "done",
                      ![id].pending = ProbeListeners(listeners, event, requests[id].ex.url)]
    /\ last' = Ran("removeRequestHeaders", id, Pass, FALSE, FALSE, "")
    /\ UNCHANGED <<env, initialized, schemeParameters, listeners, timeouts, lookups, issued,
                   xhrs, now, probeRuns>>

\* onErrorOccurred reaching a Listener instance: deregister.bind(this, [requestURL])
ListenerErrorOccurred(id) ==
    /\ requests[id].stage = "done"
    /\ Pending(id) # <<>>
    /\ Head(Pending(id)).method = "deregister"
    /\ SetWorld(ListenerOnErrorOccurred(World, Head(Pending(id)).probe, Head(Pending(id)).urls))
    /\ CountRun(Head(Pending(id)).probe)
    /\ requests' = [requests EXCEPT ![id].pending = Tail(Pending(id))]
    /\ last' = Ran("Listener.deregister", id, Pass, FALSE, FALSE, "")
    /\ UNCHANGED <<env, initialized, now>>

\* the event loop runs the oldest timeout callback
RunTimeout ==
    /\ timeouts # <<>>
    /\ SetWorld(DetectProxy([World EXCEPT !.timeouts = Tail(@)], Head(timeouts)))
    /\ last' = Ran("timeout", Head(timeouts).requestId, Pass, FALSE, FALSE, "")
    /\ UNCHANGED <<env, initialized, now, requests, probeRuns>>

\* getClientHostnames answers with status 200: the promise resolves
ResolveHostnames(i, hostnames) ==
    /\ i \in DOMAIN lookups
    /\ hostnames \in env.hostnames
    /\ Proxies' = HostnamesResolved(Proxies, lookups[i], hostnames)
    /\ lookups' = RemoveAt(lookups, i)
    /\ last' = Ran("hostnames", 0, Pass, FALSE, FALSE, "")
    /\ UNCHANGED <<env, initialized, schemeParameters, listeners, timeouts, issued, xhrs, now,
                   requests, probeRuns>>

\* getClientHostnames answers with another status: the promise is rejected, nobody listens
RejectHostnames(i) ==
    /\ i \in DOMAIN lookups
    /\ env.rejects
    /\ lookups' = RemoveAt(lookups, i)
    /\ last' = Ran("rejected", 0, Pass, TRUE, FALSE, "")
    /\ UNCHANGED <<env, initialized, Proxies, schemeParameters, listeners, timeouts, issued,
                   xhrs, now, requests, probeRuns>>

\* time passes
Tick ==
    /\ now < StartTime + env.ticks * TickLength
    /\ now' = now + TickLength
    /\ UNCHANGED <<env, initialized, Proxies, schemeParameters, listeners, timeouts, lookups,
                   issued, xhrs, requests, probeRuns, last>>

Next ==
    \/ ProxiesInit
    \/ \E ex \in env.exchanges : StoreRequestHeaders(ex)
    \/ \E id \in DOMAIN requests : ListenerBeforeSendHeaders(id)
    \/ \E id \in DOMAIN requests : Observe(id)
    \/ \E id \in DOMAIN requests : ListenerHeadersReceived(id)
    \/ \E id \in DOMAIN requests : \E event \in {"onCompleted", "onErrorOccurred"} :
           RemoveRequestHeaders(id, event)
    \/ \E id \in DOMAIN requests : ListenerErrorOccurred(id)
    \/ RunTimeout
    \/ \E i \in DOMAIN lookups : \E hostnames \in env.hostnames : ResolveHostnames(i, hostnames)
    \/ \E i \in DOMAIN lookups : RejectHostnames(i)
    \/ Tick

Spec == Init /\ [][Next]_vars

(***************************************************************************)
(* The proxy objects on their own: stored lists whose templates use every  *)
(* placeholder, an escape and an unknown sequence; the list is loaded by   *)
(* init, and then a listed proxy is compiled again, saved, converted       *)
(* against a URL, or the module is loaded anew from what save stored.      *)
(***************************************************************************)
TemplateEnvironments ==
    LET Templates ==
            { HostProxy,
              StoredProxy(FALSE, FALSE, "http://%h.q.com/%p", <<"b.org">>),
              StoredProxy(FALSE, FALSE, "http://p.com:1/%p", <<"c.org">>),
              StoredProxy(TRUE, FALSE, "https://%h.p.com/%a", <<>>),
              StoredProxy(FALSE, FALSE, "http://p.com/%d/%f", <<"d.org">>),
              StoredProxy(TRUE, FALSE, "http://%%h.p.com/%p", <<>>),
              StoredProxy(FALSE, FALSE, "http://p.com/%x/%p", <<"e.org">>) }
    IN  { Environment(Prefs(<<pair[1], pair[2]>>, FALSE, FALSE, FALSE), {}, {<<>>}, FALSE, 0) :
            pair \in {q \in Templates \X Templates : q[1] # q[2]} }

ConvertURLs ==
    { "http://a.org.p.com/x", "http://b.org.q.com/y", "https://a.org.p.com/x",
      "http://p.com:1/z?q", "http://p.com/d/e/f", "http://%h.p.com/x", "http://p.com/%x/y" }

InitCompile ==
    /\ env \in TemplateEnvironments
    /\ initialized = FALSE
    /\ Proxies = [Constructed EXCEPT !.prefs = env.prefs.proxies]
    /\ schemeParameters = InitialSchemeParameters
    /\ listeners = <<>>
    /\ timeouts = <<>>
    /\ lookups = <<>>
    /\ issued = <<>>
    /\ xhrs = {}
    /\ now = StartTime
    /\ requests = <<>>
    /\ probeRuns = [n \in {} |-> 0]
    /\ last = Ran("load", 0, Pass, FALSE, FALSE, "")

\* what a conversion of URL by proxy i gave: the match, toProper of it, and toProxy of the
\* parsed proper URL
Converted(i, URL, m, proper) ==
    [op |-> "convert", id |-> i, url |-> URL, m |-> m, proper |-> proper,
     proxied |-> ToProxy(Proxies.proxies[i], UrlParse(proper))]

\* Zotero.Proxies.proxies[i].compileRegexp()
Compile(i) ==
    /\ initialized
    /\ LET Compiled(c) ==
               /\ Proxies' = [Proxies EXCEPT !.proxies[i] = c.proxy]
               /\ schemeParameters' = c.keys
       IN  Compiled(CompileRegexp(Proxies.proxies[i], schemeParameters))
    /\ last' = Ran("compile", i, Pass, FALSE, FALSE, "")
    /\ UNCHANGED <<env, initialized, listeners, timeouts, lookups, issued, xhrs, now, requests,
                   probeRuns>>

\* Zotero.Proxies.save(Zotero.Proxies.proxies[i])
SaveProxy(i) ==
    /\ initialized
    /\ LET Stored(s) == Proxies' = s.z /\ schemeParameters' = s.keys
       IN  Stored(Save(Proxies, schemeParameters, i, Proxies.proxies[i]))
    /\ last' = Ran("save", i, Pass, FALSE, FALSE, "")
    /\ UNCHANGED <<env, initialized, listeners, timeouts, lookups, issued, xhrs, now, requests,
                   probeRuns>>

\* the module loaded anew and Zotero.Proxies.init run on the list save stored last
Reload ==
    /\ initialized
    /\ SetWorld(ProxiesInitHandler(
                    [World EXCEPT !.z = [Constructed EXCEPT !.prefs = Proxies.prefs],
                                  !.keys = InitialSchemeParameters],
                    [env.prefs EXCEPT !.proxies = Proxies.prefs], now))
    /\ last' = Ran("reload", 0, Pass, FALSE, FALSE, "")
    /\ UNCHANGED <<env, initialized, now, requests, probeRuns>>

\* proxy.regexp.exec(URL), proxy.toProper(m) and proxy.toProxy(url.parse(proper)) for the
\* listed proxy i and a URL its regexp matches
Convert(i, URL) ==
    /\ initialized
    /\ LET Matched(r) ==
               /\ r.ok
               /\ last' = Converted(i, URL, r.m, ToProper(Proxies.proxies[i], r.m))
       IN  Matched(RegexpExec(Proxies.proxies[i].regexp, URL))
    /\ UNCHANGED <<env, initialized, Proxies, schemeParameters, listeners, timeouts, lookups,
                   issued, xhrs, now, requests, probeRuns>>

NextCompile ==
    \/ ProxiesInit
    \/ \E i \in DOMAIN Proxies.proxies : Compile(i)
    \/ \E i \in DOMAIN Proxies.proxies : SaveProxy(i)
    \/ Reload
    \/ \E i \in DOMAIN Proxies.proxies : \E URL \in ConvertURLs : Convert(i, URL)

SpecCompile == InitCompile /\ [][NextCompile]_vars

(***************************************************************************)
(* Properties.  Registry is what save writes: the proxy list, the host     *)
(* index and the stored list.  A step in which request id passes from      *)
(* "sent" to "observed" is a run of observe on that request's exchange.    *)
(***************************************************************************)

\* C1: host-index consistency: every host listed by a registered proxy is indexed to that
\* very proxy, and every entry of the index names a host that the proxy it points to lists.
HostIndexConsistent ==
    /\ \A i \in DOMAIN Proxies.proxies : \A h \in Range(Proxies.proxies[i].hosts) :
           h \in DOMAIN Proxies.hosts /\ Proxies.hosts[h] = i
    /\ \A h \in DOMAIN Proxies.hosts :
           /\ Proxies.hosts[h] \in DOMAIN Proxies.proxies
           /\ h \in Range(Proxies.proxies[Proxies.hosts[h]].hosts)

\* C2: observe never answers with a redirect for a request that carries a referrer header
\* whose hostname is the hostname of the candidate proxied target.
NoRedirectToReferrerHost ==
    \A id \in DOMAIN requests :
        LET referer == HeaderValue(ProcessHeaders(requests[id].ex.requestHeaders), "referer")
        IN  (/\ last.op = "observe" /\ last.id = id /\ last.proxied # ""
             /\ Truthy(referer)
             /\ UrlParse(referer).hostname = UrlParse(last.proxied).hostname)
            => last.verdict.kind # "Redirect"

\* C3: observe never answers with a redirect when the last two labels of the request
\* hostname are the last two labels of the candidate proxied target's hostname.
NoRedirectWithinTop2Domains ==
    (/\ last.op = "observe" /\ last.proxied # ""
     /\ Top2Domains(UrlParse(requests[last.id].ex.url).hostname)
          = Top2Domains(UrlParse(last.proxied).hostname))
    => last.verdict.kind # "Redirect"

\* C3 happens: observe reached _maybeRedirect for the only request there is, which has no
\* referrer and no originating page, with a candidate under the request's own two labels
SameTop2Observed ==
    /\ last.op = "observe" /\ last.proxied # "" /\ Len(requests) = 1
    /\ requests[1].ex.requestHeaders.items = <<>> /\ requests[1].ex.originUrl = ""
    /\ Top2Domains(UrlParse(requests[1].ex.url).hostname) # ""
    /\ Top2Domains(UrlParse(requests[1].ex.url).hostname)
         = Top2Domains(UrlParse(last.proxied).hostname)
    /\ last.verdict = Pass

\* C4: observe of an exchange whose status code is 400 or more answers NoRedirect,
\* associates no host, queues no detection and leaves the registry, the listeners and the
\* ignored URLs as they were.
FailedExchangeLeftAlone ==
    [][\A id \in DOMAIN requests :
          (/\ requests[id].stage = "sent" /\ requests'[id].stage = "observed"
           /\ requests[id].ex.statusCode >= 400)
          => /\ last'.verdict = Pass
             /\ Proxies' = Proxies
             /\ timeouts' = timeouts /\ listeners' = listeners /\ xhrs' = xhrs
             /\ schemeParameters' = schemeParameters]_vars

\* C4 happens: observe has run on a failed exchange whose host is indexed, with passive
\* learning on and no known proxy matching the URL
FailedExchangeObserved ==
    /\ last.op = "observe"
    /\ requests[last.id].ex.statusCode >= 400
    /\ Proxies.autoRecognize
    /\ FirstMatch(Proxies.proxies, requests[last.id].ex.url, TRUE).idx = 0
    /\ ProperToProxy(Proxies, requests[last.id].ex.url) # ""
    /\ last.verdict = Pass /\ timeouts = <<>>

\* C5: decision completeness: observe of an exchange with a status below 400, whose URL
\* is not ignored while the network check does not disable redirection, whose host is
\* indexed and whose own referrer and originating page match none of the guards, answers
\* Redirect to the indexed proxy's proxied form of the request URL.
RedirectWhenNoGuardMatches ==
    [][\A id \in DOMAIN requests :
          LET ex      == requests[id].ex
              referer == HeaderValue(ProcessHeaders(ex.requestHeaders), "referer")
              proxied == ProperToProxy(Proxies, ex.url)
          IN  (/\ requests[id].stage = "sent" /\ requests'[id].stage = "observed"
               /\ ex.statusCode < 400 /\ ex.url \notin Proxies.ignoreURLs
               /\ ~Proxies.disabledByDomain
               /\ UrlParse(ex.url).host \in DOMAIN Proxies.hosts
               /\ ~(Truthy(referer) /\ ProperToProxy(Proxies, referer) # "")
               /\ ~(Truthy(referer)
                      /\ UrlParse(referer).hostname = UrlParse(proxied).hostname)
               /\ ~(ex.originUrl # "" /\ ProxyToProper(Proxies, ex.originUrl) # "")
               /\ ~(ex.originUrl # ""
                      /\ UrlParse(ex.originUrl).hostname = UrlParse(proxied).hostname)
               /\ Top2Domains(UrlParse(ex.url).hostname) # ""
               /\ Top2Domains(UrlParse(proxied).hostname) # ""
               /\ Top2Domains(UrlParse(ex.url).hostname)
                    # Top2Domains(UrlParse(proxied).hostname))
              => last'.verdict = Redirect(proxied)]_vars

\* C6: detection is deferred: observe of an exchange that no known proxy matches, with
\* passive learning on, queues the detection and returns; in that step the registry, the
\* ignored URLs, the listeners and the requests sent are as before, and the verdict is the
\* one the registry of before the step gives.
DetectionDeferred ==
    [][\A id \in DOMAIN requests :
          LET details == ResponseDetails(id, requests[id].ex)
              proxied == ProperToProxy(Proxies, details.url)
          IN  (/\ requests[id].stage = "sent" /\ requests'[id].stage = "observed"
               /\ Proxies.autoRecognize
               /\ details.statusCode < 400 /\ details.url \notin Proxies.ignoreURLs
               /\ FirstMatch(Proxies.proxies, details.url, TRUE).idx = 0)
              => /\ timeouts' = Append(timeouts, details)
                 /\ Proxies' = Proxies
                 /\ listeners' = listeners /\ xhrs' = xhrs
                 /\ schemeParameters' = schemeParameters
                 /\ last'.verdict =
                      IF Proxies.disabledByDomain \/ proxied = "" THEN Pass
                      ELSE MaybeRedirect(Proxies, details,
                                         StoredRequestHeaders(Proxies, details), proxied)]_vars

\* C6 happens: observe has deferred the detection of an exchange while the detection of
\* an earlier exchange was still waiting
DetectionQueuedBehindAnother ==
    /\ last.op = "observe" /\ last.deferred
    /\ Len(timeouts) = 2
    /\ timeouts[2].requestId = last.id /\ timeouts[1].requestId # last.id

\* C7: probe lifecycle: a probe that has handled a response or a transport error has none
\* of its listeners registered any more and has handled one event only, and a URL is
\* ignored only as long as a probe for it is registered that has handled nothing yet.
ProbeTornDown ==
    /\ \A n \in DOMAIN probeRuns :
           /\ probeRuns[n] <= 1
           /\ \A i \in DOMAIN listeners : listeners[i].probe # n
    /\ \A u \in Proxies.ignoreURLs :
           \E i \in DOMAIN listeners :
               /\ listeners[i].urls = u /\ listeners[i].probe # 0
               /\ listeners[i].probe \notin DOMAIN probeRuns

\* C8: the hostname lookup is issued at most once per interval: any two calls of
\* getHostnames are at least the interval apart.
LookupsSpacedByInterval ==
    \A i, j \in DOMAIN issued : i < j => issued[j] - issued[i] >= IPCheckInterval

\* C9: idempotent learning: where every request made so far is the same EZproxy login
\* redirect, at most one proxy has been added to the stored ones, and a proxy added lists
\* the canonical host named by the redirect's url parameter.
LearnedOnce ==
    \A ex \in env.exchanges :
        LET target  == QueryTarget(UrlParse(ex.url).query)
            learned == {i \in DOMAIN Proxies.proxies : i > Len(env.prefs.proxies)}
        IN  (/\ requests # <<>> /\ \A id \in DOMAIN requests : requests[id].ex = ex
             /\ ex.statusCode = 302 /\ target.ok
             /\ HeaderValue(ProcessHeaders(ex.responseHeaders), "server") = "EZproxy")
            => /\ Cardinality(learned) <= 1
               /\ \A i \in learned :
                      UrlParse(target.value).host \in Range(Proxies.proxies[i].hosts)

\* C10: safe default on error: a handler run that ends in an error does not redirect or
\* cancel the request and leaves the registry as it was.
ErrorLeavesRegistryAlone ==
    [][last'.error =>
          /\ last'.verdict.kind \in {"NoRedirect", "Throw"}
          /\ Proxies'.proxies = Proxies.proxies
          /\ Proxies'.hosts = Proxies.hosts
          /\ Proxies'.prefs = Proxies.prefs]_vars

\* C11: running the detectors on an exchange leaves the shared state alone: the timeout
\* callback registers no listener, adds no ignored URL and sends no request, and the
\* proxy list changes at most by the one candidate the callback hands to save.
DetectorsLeaveStateAlone ==
    [][(timeouts # <<>> /\ timeouts' = Tail(timeouts))
          => /\ listeners' = listeners
             /\ Proxies'.ignoreURLs = Proxies.ignoreURLs
             /\ xhrs' = xhrs
             /\ \/ Proxies'.proxies = Proxies.proxies
                \/ /\ Len(Proxies'.proxies) = Len(Proxies.proxies) + 1
                   /\ SubSeq(Proxies'.proxies, 1, Len(Proxies.proxies)) = Proxies.proxies]_vars

\* C12: detector pipeline order: the timeout callback adds to the proxy list the proxy of
\* the first detector, in the order EZProxy then Juniper, that returns one, a detector
\* that throws counting as one that returned none, and adds nothing else.
FirstDetectorWins ==
    [][(timeouts # <<>> /\ timeouts' = Tail(timeouts))
          => LET details == [Head(timeouts) EXCEPT !.responseHeaders = ProcessHeaders(@)]
                 ezproxy == EZProxy(Proxies, listeners, details).ret
                 juniper == Juniper(details)
                 added   == SubSeq(Proxies'.proxies, Len(Proxies.proxies) + 1,
                                   Len(Proxies'.proxies))
             IN  /\ SubSeq(Proxies'.proxies, 1, Len(Proxies.proxies)) = Proxies.proxies
                 /\ added = IF ezproxy.found
                            THEN <<CompileRegexp(ezproxy.proxy, schemeParameters).proxy>>
                            ELSE IF juniper.found
                            THEN <<CompileRegexp(juniper.proxy, schemeParameters).proxy>>
                            ELSE <<>>]_vars

\* C12 happens: the callback has run on an exchange for which EZProxy throws (its qurl
\* parameter is malformed) and Juniper returns a proxy, and that proxy is the one added
JuniperAfterThrow ==
    /\ last.op = "timeout"
    /\ LET ex == requests[last.id].ex
           m  == QueryTarget(UrlParse(ex.url).query)
       IN  /\ m.ok /\ ToLowerCase(m.key) = "qurl" /\ IsMalformedURI(m.value)
           /\ Juniper(ResponseDetails(last.id, ex)).found
           /\ Len(Proxies.proxies) = Len(env.prefs.proxies) + 1
           /\ Proxies.proxies[Len(Proxies.proxies)].hosts
                = Juniper(ResponseDetails(last.id, ex)).proxy.hosts

\* C13: a detected candidate is added to the proxy list only if its canonical host has no
\* entry in the host index and is not blacklisted.
CandidateNeverKnownOrBlacklisted ==
    [][(initialized /\ Len(Proxies'.proxies) > Len(Proxies.proxies))
          => \A i \in Len(Proxies.proxies) + 1 .. Len(Proxies'.proxies) :
                 \A h \in Range(Proxies'.proxies[i].hosts) :
                     h \notin DOMAIN Proxies.hosts /\ ~IsBlacklisted(h)]_vars

\* C14: auto-association guard: a step that changes the hosts of a listed proxy appends
\* one host to them; the proxy has autoAssociate set, the host was listed by no proxy and
\* had no entry in the host index, the host is not blacklisted, and after the step the
\* index maps the host to the proxy and the stored list is the proxy list.
AssociationGuarded ==
    [][\A i \in DOMAIN Proxies.proxies :
          Proxies'.proxies[i].hosts # Proxies.proxies[i].hosts
          => \E h \in Range(Proxies'.proxies[i].hosts) :
                 /\ Proxies'.proxies[i].hosts = Append(Proxies.proxies[i].hosts, h)
                 /\ Proxies.proxies[i].autoAssociate
                 /\ \A j \in DOMAIN Proxies.proxies : h \notin Range(Proxies.proxies[j].hosts)
                 /\ h \notin DOMAIN Proxies.hosts
                 /\ ~IsBlacklisted(h)
                 /\ h \in DOMAIN Proxies'.hosts /\ Proxies'.hosts[h] = i
                 /\ Proxies'.prefs = PersistedProxies(Proxies'.proxies)]_vars

\* C14 happens: observe has appended a host to a stored proxy, while among the requests
\* made there is one whose captured host is blacklisted, already indexed, or captured by a
\* proxy without autoAssociate
HostAssociated ==
    /\ last.op = "observe" /\ Len(requests) = 2 /\ requests[1].stage = "observed"
    /\ requests[2].stage = "observed"
    /\ \E i \in DOMAIN env.prefs.proxies :
           Len(Proxies.proxies[i].hosts) = Len(env.prefs.proxies[i].hosts) + 1
    /\ \E id \in DOMAIN requests :
           LET f == FirstMatch(Proxies.proxies, requests[id].ex.url, TRUE)
           IN  /\ f.idx # 0
               /\ \/ IsBlacklisted(MatchOf(Proxies.proxies[f.idx], f.m, "%h"))
                  \/ ~Proxies.proxies[f.idx].autoAssociate
                  \/ MatchOf(Proxies.proxies[f.idx], f.m, "%h")
                       \in Range(env.prefs.proxies[f.idx].hosts)

\* C15: round trip: when proxy i has converted a URL its regexp matches, toProxy of the
\* parsed toProper result is matched by the regexp of proxy i again, and toProper of that
\* match equals the first toProper result.
RoundTrip ==
    last.op = "convert"
    => LET Again(proxy, r) == r.ok /\ ToProper(proxy, r.m) = last.proper
       IN  Again(Proxies.proxies[last.id],
                 RegexpExec(Proxies.proxies[last.id].regexp, last.proxied))

\* C16: %h is in the parameter list of a compiled proxy exactly when the proxy has
\* multiHost set and its stored template has an %h that no % precedes; a proxy without
\* multiHost never has %h in its parameter list, whatever was compiled before it.
HostParameterOnlyForMultiHost ==
    initialized
    => \A i \in DOMAIN Proxies.proxies :
           LET Unescaped(scheme) ==
                   \E k \in 0 .. Len(scheme) - 2 :
                       OccursAt(scheme, "%h", k) /\ CharAt(scheme, k - 1) # "%"
           IN  "%h" \in Range(Proxies.proxies[i].parameters)
                 <=> (Proxies.proxies[i].multiHost /\ Unescaped(env.prefs.proxies[i].scheme))

\* C17: recompilation is stable: a step that compiles a listed proxy again, or that loads
\* the module anew from the list save stored, leaves every listed proxy with the parameter
\* list and the regexp it had before the step.
RecompilationStable ==
    [][last'.op \in {"compile", "reload"}
       => \A i \in DOMAIN Proxies.proxies :
              /\ i \in DOMAIN Proxies'.proxies
              /\ Proxies'.proxies[i].parameters = Proxies.proxies[i].parameters
              /\ Proxies'.proxies[i].regexp = Proxies.proxies[i].regexp]_vars

\* C18: a proxy whose stored template has an unescaped % followed by something other than
\* h, p, d, f or a is rejected by compilation and has no regexp; a proxy whose template
\* has %h only in the escaped form %%h does not have %h among its parameters.
MalformedTemplateRejected ==
    initialized
    => \A i \in DOMAIN Proxies.proxies :
           LET Unknown(scheme) ==
                   \E k \in 0 .. Len(scheme) - 1 :
                       /\ CharAt(scheme, k) = "%" /\ CharAt(scheme, k - 1) # "%"
                       /\ CharAt(scheme, k + 1) \notin {"h", "p", "d", "f", "a", "%"}
               OnlyEscaped(scheme) ==
                   /\ IndexOf(scheme, "%%h") # -1
                   /\ \A k \in 0 .. Len(scheme) - 2 :
                          OccursAt(scheme, "%h", k) => CharAt(scheme, k - 1) = "%"
           IN  /\ Unknown(env.prefs.proxies[i].scheme) => Proxies.proxies[i].regexp = ""
               /\ OnlyEscaped(env.prefs.proxies[i].scheme)
                    => "%h" \notin Range(Proxies.proxies[i].parameters)

\* C19: toProper of a match of a multi-host proxy whose parameters are %h and then %a is
\* "http://", the host captured at %h, "/" and the captured remainder; toProper of a match
\* of a single-host proxy with a %p parameter is "http://", hosts[0], "/" and the captured
\* path.
ProperFromCaptures ==
    last.op = "convert"
    => LET Proper(proxy) ==
               /\ (proxy.multiHost /\ proxy.parameters = <<"%h", "%a">>)
                    => last.proper = "http://" \o last.m[2] \o "/" \o last.m[3]
               /\ (~proxy.multiHost /\ "%p" \in Range(proxy.parameters))
                    => last.proper = "http://" \o proxy.hosts[1] \o "/"
                                       \o Str(MatchOf(proxy, last.m, "%p"))
       IN  Proper(Proxies.proxies[last.id])

\* C20: a run of observe never answers with a redirect when the originating page's URL is
\* matched by the regexp of a listed proxy, or when the originating page's hostname is the
\* hostname of the candidate proxied target.
NoRedirectFromProxiedOrigin ==
    [][\A id \in DOMAIN requests :
          (/\ requests[id].stage = "sent" /\ requests'[id].stage = "observed"
           /\ requests[id].ex.originUrl # ""
           /\ \/ \E i \in DOMAIN Proxies.proxies :
                     /\ Proxies.proxies[i].regexp # ""
                     /\ RegexpExec(Proxies.proxies[i].regexp, requests[id].ex.originUrl).ok
              \/ /\ last'.proxied # ""
                 /\ UrlParse(requests[id].ex.originUrl).hostname
                      = UrlParse(last'.proxied).hostname)
          => last'.verdict.kind # "Redirect"]_vars

\* C20 happens: observe reached _maybeRedirect for the only request there is, which has no
\* referrer, whose candidate lies under other top two labels than the request, and whose
\* originating page is matched by a listed proxy; the answer was no redirect
ProxiedOriginObserved ==
    /\ last.op = "observe" /\ last.proxied # "" /\ Len(requests) = 1
    /\ requests[1].ex.requestHeaders.items = <<>>
    /\ requests[1].ex.originUrl # ""
    /\ \E i \in DOMAIN Proxies.proxies :
           RegexpExec(Proxies.proxies[i].regexp, requests[1].ex.originUrl).ok
    /\ UrlParse(requests[1].ex.originUrl).hostname # UrlParse(last.proxied).hostname
    /\ Top2Domains(UrlParse(requests[1].ex.url).hostname)
         # Top2Domains(UrlParse(last.proxied).hostname)
    /\ last.verdict = Pass

\* C21: a run of observe settles no hostname lookup and leaves the disabledByDomain flag
\* as it found it: lookups pending before the run are pending after it; and when the flag
\* is set as observe runs, the answer is no redirect.
GatedByLastKnownValue ==
    [][\A id \in DOMAIN requests :
          (requests[id].stage = "sent" /\ requests'[id].stage = "observed")
          => /\ Proxies'.disabledByDomain = Proxies.disabledByDomain
             /\ Len(lookups') >= Len(lookups)
             /\ \A i \in DOMAIN lookups : lookups'[i] = lookups[i]
             /\ Proxies.disabledByDomain => last'.verdict = Pass]_vars

\* C21 happens: observe has run on a request to an indexed host with the flag set, while a
\* lookup issued before the run was still pending, and answered no redirect
GatedWhileLookupPending ==
    /\ last.op = "observe" /\ last.verdict = Pass
    /\ Proxies.disabledByDomain
    /\ Len(lookups) >= 2
    /\ ProperToProxy(Proxies, requests[last.id].ex.url) # ""
    /\ StoredRequestHeaders(Proxies, ResponseDetails(last.id, requests[last.id].ex)).kind
         = "object"

\* C22: per-request header isolation: the request headers a run of observe hands to the
\* redirect decision for a request are the headers the before-send event of that very
\* request stored, whatever other requests did in between; and after the completed or
\* error event of a request nothing is stored under the key its before-send event used.
HeadersIsolatedPerRequest ==
    [][\A id \in DOMAIN requests :
          /\ (/\ requests[id].stage = "sent" /\ requests'[id].stage = "observed"
              /\ last'.proxied # "")
             => StoredRequestHeaders(Proxies, ResponseDetails(id, requests[id].ex))
                  = ProcessHeaders(requests[id].ex.requestHeaders)
          /\ (requests[id].stage # "done" /\ requests'[id].stage = "done")
             => RequestID(BeforeSendDetails(id, requests[id].ex))
                  \notin DOMAIN Proxies'.reqIDToHeaders]_vars

\* C23: once init has run with autoRecognize off, no step queues a detection, starts a
\* probe (a Listener registration, an XMLHttpRequest, an ignored URL) or adds, drops or
\* recompiles a proxy; and a step that changes the proxy list, the host index or the
\* stored list is a run of observe that appends one host to a listed multi-host proxy.
NothingLearnedWhenOff ==
    [][(initialized /\ ~Proxies.autoRecognize)
       => /\ ~Proxies'.autoRecognize
          /\ timeouts' = <<>> /\ xhrs' = {} /\ Proxies'.ignoreURLs = {}
          /\ \A k \in DOMAIN listeners' : listeners'[k].probe = 0
          /\ Len(Proxies'.proxies) = Len(env.prefs.proxies)
          /\ \A i \in DOMAIN Proxies.proxies :
                 [Proxies'.proxies[i] EXCEPT !.hosts = <<>>]
                   = [Proxies.proxies[i] EXCEPT !.hosts = <<>>]
          /\ (\/ Proxies'.proxies # Proxies.proxies
              \/ Proxies'.hosts # Proxies.hosts
              \/ Proxies'.prefs # Proxies.prefs)
             => /\ \E id \in DOMAIN requests :
                       requests[id].stage = "sent" /\ requests'[id].stage = "observed"
                /\ \E i \in DOMAIN Proxies.proxies :
                       /\ Proxies.proxies[i].multiHost
                       /\ Len(Proxies'.proxies[i].hosts) = Len(Proxies.proxies[i].hosts) + 1
                       /\ \A j \in DOMAIN Proxies.proxies :
                              j # i => Proxies'.proxies[j] = Proxies.proxies[j]]_vars

\* C23 happens: with autoRecognize off, observe has run on a successful login redirect that
\* no listed proxy matches, and nothing is queued and the list is as it was stored
LoginRedirectNotLearned ==
    /\ initialized /\ Proxies.transparent /\ ~Proxies.autoRecognize
    /\ last.op = "observe"
    /\ requests[last.id].ex \in LearnExchanges
    /\ requests[last.id].ex.statusCode = 302
    /\ FirstMatch(Proxies.proxies, requests[last.id].ex.url, TRUE).idx = 0
    /\ timeouts = <<>>
    /\ PersistedProxies(Proxies.proxies) = env.prefs.proxies

=============================================================================
